---- MODULE Spec2Model ----
(***************************************************************************)
(* The matrix-multiplication kernels of src/main.cpp (multiply_v0_bT,      *)
(* multiply_v0_aT, multiply_v1_aT, multiply_v2_aT, multiply_v3_aT) and     *)
(* transpose_matr, as a machine over one flat heap of numbers.             *)
(*                                                                         *)
(* A buffer is a base address into the heap; a C pointer access p[e] is    *)
(* the heap cell at base + e, so an index outside a buffer lands in the    *)
(* neighbouring buffer exactly as it does in the program.  A thread runs a *)
(* sequence of calls; its position inside a call is the loop header it is  *)
(* at (pc) and the values of the loop variables.  One step evaluates one   *)
(* loop condition and, when it holds, the straight-line code up to the     *)
(* next loop header.                                                       *)
(*                                                                         *)
(* mem is the heap, th the threads, nw the number of writes each heap cell  *)
(* has had, mem0 the heap as it was at the start; alone holds, where two   *)
(* calls run side by side, each call run by itself for comparison.         *)
(*                                                                         *)
(* float is modelled by the integers: every kernel adds the K products of  *)
(* one output element in the same order (k ascending, from 0.0), so the    *)
(* rounding of the additions is the same in all of them.                   *)
(***************************************************************************)
EXTENDS Integers, Sequences, FiniteSets, TLC

VARIABLES mem, th, nw, mem0, alone

vars == <<mem, th, nw, mem0, alone>>

\* the tile width written as the literal 16 in multiply_v1_aT .. multiply_v3_aT
TILE == 16

\* ---------------------------------------------------------------- bounds
\* small dimensions 1..MaxDim
MaxDim == 2
\* contraction dimension 0..MaxK
MaxK == 2
\* a tiled dimension is TILE * 1 .. TILE * MaxTiles
MaxTiles == 2
\* input families 1..MaxSeed
MaxSeed == 2
\* contraction dimension 1..MaxConcK of two calls side by side
MaxConcK == 1

\* ------------------------------------------------------------------ heap
\* p[e] read through a pointer whose buffer starts at base
Load(h, a) == IF a \in DOMAIN h THEN h[a] ELSE 0

\* p[e] = v
Store(h, a, v) == IF a \in DOMAIN h THEN [h EXCEPT ![a] = v] ELSE h

\* ---------------------------------------------------------------- thread
\* the accesses of one step, as indices relative to the three pointers
NoAcc == [p |-> {}, q |-> {}, c |-> {}]

Acc(ps, qs, cs) == [p |-> ps, q |-> qs, c |-> cs]

\* a call: the function, its pointer arguments (p: first input, q: second
\* input, c: output) and its int arguments
Call(fn, p, q, c, M, K, N) ==
    [fn |-> fn, p |-> p, q |-> q, c |-> c, M |-> M, K |-> K, N |-> N]

\* a thread about to make the first call of prog
Thread(prog) ==
    [prog |-> prog, ip |-> 1, pc |-> "call", acc |-> NoAcc,
     i |-> 0, j |-> 0, m |-> 0, n |-> 0, k |-> 0,
     m1 |-> 0, m2 |-> 0, n1 |-> 0, n2 |-> 0]

\* the call a thread is in
Frame(t) == t.prog[t.ip]

St(t, h) == [t |-> t, h |-> h]

\* the function returns: the caller goes on to its next call, or is finished
Ret(t) ==
    [Thread(t.prog) EXCEPT
        !.ip = IF t.ip < Len(t.prog) THEN t.ip + 1 ELSE t.ip,
        !.pc = IF t.ip < Len(t.prog) THEN "call" ELSE "done"]

\* a failed assert: abort()
Abort(t) == [t EXCEPT !.pc = "abort", !.acc = NoAcc]

\* -------------------------------------------------------- transpose_matr
\* void transpose_matr(p, pT, M, K): entry, i = 0
transpose_matr_call(t, h) ==
    St([t EXCEPT !.i = 0, !.pc = "i", !.acc = NoAcc], h)

\* for (i < M) { j = 0 ...
transpose_matr_i(t, h) ==
    LET f == Frame(t) IN
    IF t.i < f.M
    THEN St([t EXCEPT !.j = 0, !.pc = "j", !.acc = NoAcc], h)
    ELSE St(Ret(t), h)

\* a wrong transpose_matr: the output indexed with the stride of the input,
\* pT[j * K + i]
transpose_matr_j_stride_K(t, h) ==
    LET f == Frame(t) IN
    IF t.j < f.K
    THEN St([t EXCEPT !.j = @ + 1,
                      !.acc = Acc({t.i * f.K + t.j}, {}, {t.j * f.K + t.i})],
            Store(h, f.c + (t.j * f.K + t.i), Load(h, f.p + (t.i * f.K + t.j))))
    ELSE St([t EXCEPT !.i = @ + 1, !.pc = "i", !.acc = NoAcc], h)

\* for (j < K) { pT[j * M + i] = p[i * K + j]; j++ }   i++
transpose_matr_j(t, h) ==
    LET f == Frame(t) IN
    IF t.j < f.K
    THEN St([t EXCEPT !.j = @ + 1,
                      !.acc = Acc({t.i * f.K + t.j}, {}, {t.j * f.M + t.i})],
            Store(h, f.c + (t.j * f.M + t.i), Load(h, f.p + (t.i * f.K + t.j))))
    ELSE St([t EXCEPT !.i = @ + 1, !.pc = "i", !.acc = NoAcc], h)

\* -------------------------------------------------------- multiply_v0_bT
\* entry, m = 0
multiply_v0_bT_call(t, h) ==
    St([t EXCEPT !.m = 0, !.pc = "m", !.acc = NoAcc], h)

\* for (m < M) { n = 0 ...
multiply_v0_bT_m(t, h) ==
    LET f == Frame(t) IN
    IF t.m < f.M
    THEN St([t EXCEPT !.n = 0, !.pc = "n", !.acc = NoAcc], h)
    ELSE St(Ret(t), h)

\* for (n < N) { c[m * N + n] = 0.0; k = 0 ... }   m++
multiply_v0_bT_n(t, h) ==
    LET f == Frame(t) IN
    IF t.n < f.N
    THEN St([t EXCEPT !.k = 0, !.pc = "k", !.acc = Acc({}, {}, {t.m * f.N + t.n})],
            Store(h, f.c + (t.m * f.N + t.n), 0))
    ELSE St([t EXCEPT !.m = @ + 1, !.pc = "m", !.acc = NoAcc], h)

\* a wrong multiply_v0_bT: bT indexed as if it were b, bT[k * N + n]
multiply_v0_bT_k_as_b(t, h) ==
    LET f == Frame(t) IN
    IF t.k < f.K
    THEN St([t EXCEPT !.k = @ + 1,
                      !.acc = Acc({t.m * f.K + t.k}, {t.k * f.N + t.n},
                                  {t.m * f.N + t.n})],
            Store(h, f.c + (t.m * f.N + t.n),
                  Load(h, f.c + (t.m * f.N + t.n))
                  + Load(h, f.p + (t.m * f.K + t.k))
                    * Load(h, f.q + (t.k * f.N + t.n))))
    ELSE St([t EXCEPT !.n = @ + 1, !.pc = "n", !.acc = NoAcc], h)

\* for (k < K) { c[m * N + n] += a[m * K + k] * bT[n * K + k]; k++ }   n++
multiply_v0_bT_k(t, h) ==
    LET f == Frame(t) IN
    IF t.k < f.K
    THEN St([t EXCEPT !.k = @ + 1,
                      !.acc = Acc({t.m * f.K + t.k}, {t.n * f.K + t.k},
                                  {t.m * f.N + t.n})],
            Store(h, f.c + (t.m * f.N + t.n),
                  Load(h, f.c + (t.m * f.N + t.n))
                  + Load(h, f.p + (t.m * f.K + t.k))
                    * Load(h, f.q + (t.n * f.K + t.k))))
    ELSE St([t EXCEPT !.n = @ + 1, !.pc = "n", !.acc = NoAcc], h)

\* -------------------------------------------------------- multiply_v0_aT
\* entry, m = 0
multiply_v0_aT_call(t, h) ==
    St([t EXCEPT !.m = 0, !.pc = "m", !.acc = NoAcc], h)

\* for (m < M) { n = 0 ...
multiply_v0_aT_m(t, h) ==
    LET f == Frame(t) IN
    IF t.m < f.M
    THEN St([t EXCEPT !.n = 0, !.pc = "n", !.acc = NoAcc], h)
    ELSE St(Ret(t), h)

\* for (n < N) { c[m * N + n] = 0.0; k = 0 ... }   m++
multiply_v0_aT_n(t, h) ==
    LET f == Frame(t) IN
    IF t.n < f.N
    THEN St([t EXCEPT !.k = 0, !.pc = "k", !.acc = Acc({}, {}, {t.m * f.N + t.n})],
            Store(h, f.c + (t.m * f.N + t.n), 0))
    ELSE St([t EXCEPT !.m = @ + 1, !.pc = "m", !.acc = NoAcc], h)

\* a wrong multiply_v0_aT: aT indexed as if it were a, aT[m * K + k]
multiply_v0_aT_k_as_a(t, h) ==
    LET f == Frame(t) IN
    IF t.k < f.K
    THEN St([t EXCEPT !.k = @ + 1,
                      !.acc = Acc({t.m * f.K + t.k}, {t.k * f.N + t.n},
                                  {t.m * f.N + t.n})],
            Store(h, f.c + (t.m * f.N + t.n),
                  Load(h, f.c + (t.m * f.N + t.n))
                  + Load(h, f.p + (t.m * f.K + t.k))
                    * Load(h, f.q + (t.k * f.N + t.n))))
    ELSE St([t EXCEPT !.n = @ + 1, !.pc = "n", !.acc = NoAcc], h)

\* for (k < K) { c[m * N + n] += aT[k * M + m] * b[k * N + n]; k++ }   n++
multiply_v0_aT_k(t, h) ==
    LET f == Frame(t) IN
    IF t.k < f.K
    THEN St([t EXCEPT !.k = @ + 1,
                      !.acc = Acc({t.k * f.M + t.m}, {t.k * f.N + t.n},
                                  {t.m * f.N + t.n})],
            Store(h, f.c + (t.m * f.N + t.n),
                  Load(h, f.c + (t.m * f.N + t.n))
                  + Load(h, f.p + (t.k * f.M + t.m))
                    * Load(h, f.q + (t.k * f.N + t.n))))
    ELSE St([t EXCEPT !.n = @ + 1, !.pc = "n", !.acc = NoAcc], h)

\* -------------------------------------------------------- multiply_v1_aT
\* a wrong multiply_v1_aT: the precondition put on K, assert(K % 16 == 0)
multiply_v1_aT_call_assert_K(t, h) ==
    LET f == Frame(t) IN
    IF f.K % TILE = 0
    THEN St([t EXCEPT !.m = 0, !.pc = "m", !.acc = NoAcc], h)
    ELSE St(Abort(t), h)

\* entry: assert(N % 16 == 0); m = 0
multiply_v1_aT_call(t, h) ==
    LET f == Frame(t) IN
    IF f.N % TILE = 0
    THEN St([t EXCEPT !.m = 0, !.pc = "m", !.acc = NoAcc], h)
    ELSE St(Abort(t), h)

\* for (m < M) { n1 = 0 ...
multiply_v1_aT_m(t, h) ==
    LET f == Frame(t) IN
    IF t.m < f.M
    THEN St([t EXCEPT !.n1 = 0, !.pc = "n1", !.acc = NoAcc], h)
    ELSE St(Ret(t), h)

\* a wrong multiply_v1_aT: one tile too many, n1 <= N
multiply_v1_aT_n1_le(t, h) ==
    LET f == Frame(t) IN
    IF t.n1 <= f.N
    THEN St([t EXCEPT !.n2 = 0, !.pc = "n2", !.acc = NoAcc], h)
    ELSE St([t EXCEPT !.m = @ + 1, !.pc = "m", !.acc = NoAcc], h)

\* for (n1 < N) { n2 = 0 ... }   m++
multiply_v1_aT_n1(t, h) ==
    LET f == Frame(t) IN
    IF t.n1 < f.N
    THEN St([t EXCEPT !.n2 = 0, !.pc = "n2", !.acc = NoAcc], h)
    ELSE St([t EXCEPT !.m = @ + 1, !.pc = "m", !.acc = NoAcc], h)

\* for (n2 < 16) { c[m * N + n1 + n2] = 0.0; k = 0 ... }   n1 += 16
multiply_v1_aT_n2(t, h) ==
    LET f == Frame(t) IN
    IF t.n2 < TILE
    THEN St([t EXCEPT !.k = 0, !.pc = "k",
                      !.acc = Acc({}, {}, {t.m * f.N + t.n1 + t.n2})],
            Store(h, f.c + (t.m * f.N + t.n1 + t.n2), 0))
    ELSE St([t EXCEPT !.n1 = @ + TILE, !.pc = "n1", !.acc = NoAcc], h)

\* for (k < K) { c[m * N + n1 + n2] += aT[k * M + m] * b[k * N + n1 + n2]; k++ }
\* n2++
multiply_v1_aT_k(t, h) ==
    LET f == Frame(t) IN
    IF t.k < f.K
    THEN St([t EXCEPT !.k = @ + 1,
                      !.acc = Acc({t.k * f.M + t.m}, {t.k * f.N + t.n1 + t.n2},
                                  {t.m * f.N + t.n1 + t.n2})],
            Store(h, f.c + (t.m * f.N + t.n1 + t.n2),
                  Load(h, f.c + (t.m * f.N + t.n1 + t.n2))
                  + Load(h, f.p + (t.k * f.M + t.m))
                    * Load(h, f.q + (t.k * f.N + t.n1 + t.n2))))
    ELSE St([t EXCEPT !.n2 = @ + 1, !.pc = "n2", !.acc = NoAcc], h)

\* -------------------------------------------------------- multiply_v2_aT
\* entry: assert(N % 16 == 0); i = 0
multiply_v2_aT_call(t, h) ==
    LET f == Frame(t) IN
    IF f.N % TILE = 0
    THEN St([t EXCEPT !.i = 0, !.pc = "i", !.acc = NoAcc], h)
    ELSE St(Abort(t), h)

\* a wrong multiply_v2_aT: the output left as the caller passed it
multiply_v2_aT_i_no_zero(t, h) ==
    LET f == Frame(t) IN
    IF t.i < f.M * f.N
    THEN St([t EXCEPT !.i = @ + 1, !.acc = NoAcc], h)
    ELSE St([t EXCEPT !.m = 0, !.pc = "m", !.acc = NoAcc], h)

\* a wrong multiply_v2_aT: one element too many set to 0, i <= M * N
multiply_v2_aT_i_le(t, h) ==
    LET f == Frame(t) IN
    IF t.i <= f.M * f.N
    THEN St([t EXCEPT !.i = @ + 1, !.acc = Acc({}, {}, {t.i})],
            Store(h, f.c + t.i, 0))
    ELSE St([t EXCEPT !.m = 0, !.pc = "m", !.acc = NoAcc], h)

\* for (i < M * N) { c[i] = 0.0; i++ }   m = 0
multiply_v2_aT_i(t, h) ==
    LET f == Frame(t) IN
    IF t.i < f.M * f.N
    THEN St([t EXCEPT !.i = @ + 1, !.acc = Acc({}, {}, {t.i})],
            Store(h, f.c + t.i, 0))
    ELSE St([t EXCEPT !.m = 0, !.pc = "m", !.acc = NoAcc], h)

\* for (m < M) { n1 = 0 ...
multiply_v2_aT_m(t, h) ==
    LET f == Frame(t) IN
    IF t.m < f.M
    THEN St([t EXCEPT !.n1 = 0, !.pc = "n1", !.acc = NoAcc], h)
    ELSE St(Ret(t), h)

\* for (n1 < N) { k = 0 ... }   m++
multiply_v2_aT_n1(t, h) ==
    LET f == Frame(t) IN
    IF t.n1 < f.N
    THEN St([t EXCEPT !.k = 0, !.pc = "k", !.acc = NoAcc], h)
    ELSE St([t EXCEPT !.m = @ + 1, !.pc = "m", !.acc = NoAcc], h)

\* for (k < K) { n2 = 0 ... }   n1 += 16
multiply_v2_aT_k(t, h) ==
    LET f == Frame(t) IN
    IF t.k < f.K
    THEN St([t EXCEPT !.n2 = 0, !.pc = "n2", !.acc = NoAcc], h)
    ELSE St([t EXCEPT !.n1 = @ + TILE, !.pc = "n1", !.acc = NoAcc], h)

\* a wrong multiply_v2_aT: the tile offset n1 left out of the index of b
multiply_v2_aT_n2_no_n1(t, h) ==
    LET f == Frame(t) IN
    IF t.n2 < TILE
    THEN St([t EXCEPT !.n2 = @ + 1,
                      !.acc = Acc({t.k * f.M + t.m}, {t.k * f.N + t.n2},
                                  {t.m * f.N + t.n1 + t.n2})],
            Store(h, f.c + (t.m * f.N + t.n1 + t.n2),
                  Load(h, f.c + (t.m * f.N + t.n1 + t.n2))
                  + Load(h, f.p + (t.k * f.M + t.m))
                    * Load(h, f.q + (t.k * f.N + t.n2))))
    ELSE St([t EXCEPT !.k = @ + 1, !.pc = "k", !.acc = NoAcc], h)

\* for (n2 < 16) { c[m * N + n1 + n2] += aT[k * M + m] * b[k * N + n1 + n2]; n2++ }
\* k++
multiply_v2_aT_n2(t, h) ==
    LET f == Frame(t) IN
    IF t.n2 < TILE
    THEN St([t EXCEPT !.n2 = @ + 1,
                      !.acc = Acc({t.k * f.M + t.m}, {t.k * f.N + t.n1 + t.n2},
                                  {t.m * f.N + t.n1 + t.n2})],
            Store(h, f.c + (t.m * f.N + t.n1 + t.n2),
                  Load(h, f.c + (t.m * f.N + t.n1 + t.n2))
                  + Load(h, f.p + (t.k * f.M + t.m))
                    * Load(h, f.q + (t.k * f.N + t.n1 + t.n2))))
    ELSE St([t EXCEPT !.k = @ + 1, !.pc = "k", !.acc = NoAcc], h)

\* -------------------------------------------------------- multiply_v3_aT
\* a wrong multiply_v3_aT: assert(M % 16 == 0) left out
multiply_v3_aT_call_no_assert_M(t, h) ==
    LET f == Frame(t) IN
    IF f.N % TILE = 0
    THEN St([t EXCEPT !.i = 0, !.pc = "i", !.acc = NoAcc], h)
    ELSE St(Abort(t), h)

\* entry: assert(N % 16 == 0); assert(M % 16 == 0); i = 0
multiply_v3_aT_call(t, h) ==
    LET f == Frame(t) IN
    IF f.N % TILE = 0 /\ f.M % TILE = 0
    THEN St([t EXCEPT !.i = 0, !.pc = "i", !.acc = NoAcc], h)
    ELSE St(Abort(t), h)

\* for (i < M * N) { c[i] = 0.0; i++ }   m1 = 0
multiply_v3_aT_i(t, h) ==
    LET f == Frame(t) IN
    IF t.i < f.M * f.N
    THEN St([t EXCEPT !.i = @ + 1, !.acc = Acc({}, {}, {t.i})],
            Store(h, f.c + t.i, 0))
    ELSE St([t EXCEPT !.m1 = 0, !.pc = "m1", !.acc = NoAcc], h)

\* for (m1 < M) { n1 = 0 ...
multiply_v3_aT_m1(t, h) ==
    LET f == Frame(t) IN
    IF t.m1 < f.M
    THEN St([t EXCEPT !.n1 = 0, !.pc = "n1", !.acc = NoAcc], h)
    ELSE St(Ret(t), h)

\* for (n1 < N) { k = 0 ... }   m1 += 16
multiply_v3_aT_n1(t, h) ==
    LET f == Frame(t) IN
    IF t.n1 < f.N
    THEN St([t EXCEPT !.k = 0, !.pc = "k", !.acc = NoAcc], h)
    ELSE St([t EXCEPT !.m1 = @ + TILE, !.pc = "m1", !.acc = NoAcc], h)

\* for (k < K) { m2 = 0 ... }   n1 += 16
multiply_v3_aT_k(t, h) ==
    LET f == Frame(t) IN
    IF t.k < f.K
    THEN St([t EXCEPT !.m2 = 0, !.pc = "m2", !.acc = NoAcc], h)
    ELSE St([t EXCEPT !.n1 = @ + TILE, !.pc = "n1", !.acc = NoAcc], h)

\* for (m2 < 16) { n2 = 0 ... }   k++
multiply_v3_aT_m2(t, h) ==
    LET f == Frame(t) IN
    IF t.m2 < TILE
    THEN St([t EXCEPT !.n2 = 0, !.pc = "n2", !.acc = NoAcc], h)
    ELSE St([t EXCEPT !.k = @ + 1, !.pc = "k", !.acc = NoAcc], h)

\* a wrong multiply_v3_aT: the tile offset n1 left out of the index of c
multiply_v3_aT_n2_no_n1(t, h) ==
    LET f == Frame(t) IN
    IF t.n2 < TILE
    THEN St([t EXCEPT !.n2 = @ + 1,
                      !.acc = Acc({t.k * f.M + t.m1 + t.m2},
                                  {t.k * f.N + t.n1 + t.n2},
                                  {(t.m1 + t.m2) * f.N + t.n2})],
            Store(h, f.c + ((t.m1 + t.m2) * f.N + t.n2),
                  Load(h, f.c + ((t.m1 + t.m2) * f.N + t.n2))
                  + Load(h, f.p + (t.k * f.M + t.m1 + t.m2))
                    * Load(h, f.q + (t.k * f.N + t.n1 + t.n2))))
    ELSE St([t EXCEPT !.m2 = @ + 1, !.pc = "m2", !.acc = NoAcc], h)

\* for (n2 < 16) { c[(m1 + m2) * N + n1 + n2]
\*                   += aT[k * M + m1 + m2] * b[k * N + n1 + n2]; n2++ }   m2++
multiply_v3_aT_n2(t, h) ==
    LET f == Frame(t) IN
    IF t.n2 < TILE
    THEN St([t EXCEPT !.n2 = @ + 1,
                      !.acc = Acc({t.k * f.M + t.m1 + t.m2},
                                  {t.k * f.N + t.n1 + t.n2},
                                  {(t.m1 + t.m2) * f.N + t.n1 + t.n2})],
            Store(h, f.c + ((t.m1 + t.m2) * f.N + t.n1 + t.n2),
                  Load(h, f.c + ((t.m1 + t.m2) * f.N + t.n1 + t.n2))
                  + Load(h, f.p + (t.k * f.M + t.m1 + t.m2))
                    * Load(h, f.q + (t.k * f.N + t.n1 + t.n2))))
    ELSE St([t EXCEPT !.m2 = @ + 1, !.pc = "m2", !.acc = NoAcc], h)

\* --------------------------------------------------------- epsilon_equal
Abs(x) == IF x < 0 THEN -x ELSE x

\* std::abs(a - b) < 1e-4
epsilon_equal(x, y) == Abs(x - y) * 10000 < 1

\* ------------------------------------------------------------- the steps
\* no thread has called abort()
Running == \A x \in DOMAIN th : th[x].pc # "abort"

\* the write counts after one step: a step writes at most one cell
Written(w, cells) ==
    IF cells \cap DOMAIN w = {}
    THEN w
    ELSE LET a == CHOOSE x \in cells \cap DOMAIN w : TRUE
         IN [w EXCEPT ![a] = @ + 1]

\* thread id, at loop header pc of function fn, takes the step s: the heap
\* cells written through the output pointer are counted in nw
Do(id, fn, pc, s) ==
    /\ id \in DOMAIN th
    /\ \A x \in DOMAIN alone : alone[x].t.pc \in {"done", "abort"}
    /\ Running
    /\ th[id].pc = pc
    /\ Frame(th[id]).fn = fn
    /\ th' = [th EXCEPT ![id] = s.t]
    /\ mem' = s.h
    /\ nw' = Written(nw, {Frame(th[id]).c + e : e \in s.t.acc.c})
    /\ UNCHANGED <<mem0, alone>>

Step_transpose_matr_call(id) ==
    Do(id, "transpose_matr", "call", transpose_matr_call(th[id], mem))
Step_transpose_matr_i(id) ==
    Do(id, "transpose_matr", "i", transpose_matr_i(th[id], mem))
Step_transpose_matr_j(id) ==
    Do(id, "transpose_matr", "j", transpose_matr_j(th[id], mem))

Step_multiply_v0_bT_call(id) ==
    Do(id, "multiply_v0_bT", "call", multiply_v0_bT_call(th[id], mem))
Step_multiply_v0_bT_m(id) ==
    Do(id, "multiply_v0_bT", "m", multiply_v0_bT_m(th[id], mem))
Step_multiply_v0_bT_n(id) ==
    Do(id, "multiply_v0_bT", "n", multiply_v0_bT_n(th[id], mem))
Step_multiply_v0_bT_k(id) ==
    Do(id, "multiply_v0_bT", "k", multiply_v0_bT_k(th[id], mem))

Step_multiply_v0_aT_call(id) ==
    Do(id, "multiply_v0_aT", "call", multiply_v0_aT_call(th[id], mem))
Step_multiply_v0_aT_m(id) ==
    Do(id, "multiply_v0_aT", "m", multiply_v0_aT_m(th[id], mem))
Step_multiply_v0_aT_n(id) ==
    Do(id, "multiply_v0_aT", "n", multiply_v0_aT_n(th[id], mem))
Step_multiply_v0_aT_k(id) ==
    Do(id, "multiply_v0_aT", "k", multiply_v0_aT_k(th[id], mem))

Step_multiply_v1_aT_call(id) ==
    Do(id, "multiply_v1_aT", "call", multiply_v1_aT_call(th[id], mem))
Step_multiply_v1_aT_m(id) ==
    Do(id, "multiply_v1_aT", "m", multiply_v1_aT_m(th[id], mem))
Step_multiply_v1_aT_n1(id) ==
    Do(id, "multiply_v1_aT", "n1", multiply_v1_aT_n1(th[id], mem))
Step_multiply_v1_aT_n2(id) ==
    Do(id, "multiply_v1_aT", "n2", multiply_v1_aT_n2(th[id], mem))
Step_multiply_v1_aT_k(id) ==
    Do(id, "multiply_v1_aT", "k", multiply_v1_aT_k(th[id], mem))

Step_multiply_v2_aT_call(id) ==
    Do(id, "multiply_v2_aT", "call", multiply_v2_aT_call(th[id], mem))
Step_multiply_v2_aT_i(id) ==
    Do(id, "multiply_v2_aT", "i", multiply_v2_aT_i(th[id], mem))
Step_multiply_v2_aT_m(id) ==
    Do(id, "multiply_v2_aT", "m", multiply_v2_aT_m(th[id], mem))
Step_multiply_v2_aT_n1(id) ==
    Do(id, "multiply_v2_aT", "n1", multiply_v2_aT_n1(th[id], mem))
Step_multiply_v2_aT_k(id) ==
    Do(id, "multiply_v2_aT", "k", multiply_v2_aT_k(th[id], mem))
Step_multiply_v2_aT_n2(id) ==
    Do(id, "multiply_v2_aT", "n2", multiply_v2_aT_n2(th[id], mem))

Step_multiply_v3_aT_call(id) ==
    Do(id, "multiply_v3_aT", "call", multiply_v3_aT_call(th[id], mem))
Step_multiply_v3_aT_i(id) ==
    Do(id, "multiply_v3_aT", "i", multiply_v3_aT_i(th[id], mem))
Step_multiply_v3_aT_m1(id) ==
    Do(id, "multiply_v3_aT", "m1", multiply_v3_aT_m1(th[id], mem))
Step_multiply_v3_aT_n1(id) ==
    Do(id, "multiply_v3_aT", "n1", multiply_v3_aT_n1(th[id], mem))
Step_multiply_v3_aT_k(id) ==
    Do(id, "multiply_v3_aT", "k", multiply_v3_aT_k(th[id], mem))
Step_multiply_v3_aT_m2(id) ==
    Do(id, "multiply_v3_aT", "m2", multiply_v3_aT_m2(th[id], mem))
Step_multiply_v3_aT_n2(id) ==
    Do(id, "multiply_v3_aT", "n2", multiply_v3_aT_n2(th[id], mem))

\* ---------------------------------------------------------------- inputs
Kernels == {"multiply_v0_bT", "multiply_v0_aT", "multiply_v1_aT",
            "multiply_v2_aT", "multiply_v3_aT"}

SmallDims == 1 .. MaxDim

TiledDims == {TILE * x : x \in 1 .. MaxTiles}

\* dimensions that are no multiple of the tile width
UntiledDims == SmallDims \cup {TILE - 1, TILE + 1}

KDims == 0 .. MaxK

\* the contraction dimensions of the calls on tiled shapes: none, and the
\* largest
TiledK == {0, MaxK}

Seeds == 1 .. MaxSeed

\* element e of the input buffer of family seed
G(seed, e) == (((e + seed) * (e + 2 * seed + 1)) % 7) - 3

\* element e of a buffer of pairwise distinct values
Distinct(seed, e) == 10 * seed + e

\* element e of a buffer left over from an earlier use: never 0
Stale(seed, e) == 7 + seed + e

\* a buffer of n elements F(0) .. F(n-1), as a sequence
Buf(n, F(_)) == [x \in 1 .. n |-> F(x - 1)]

Zero(e) == 0

\* std::vector<float>(n): n elements, value-initialised
Vec(n) == Buf(n, Zero)

\* the heap holding the buffers of seq one after the other, from address 0
HeapOf(seq) == [a \in 0 .. Len(seq) - 1 |-> seq[a + 1]]

\* the initial state: the heap and the threads' programs
Start(heap, threads) ==
    /\ mem = heap
    /\ mem0 = heap
    /\ nw = [a \in DOMAIN heap |-> 0]
    /\ th = threads
    /\ alone = <<>>

\* the shapes one call of kernel fn is tried on, valid and invalid
Shapes(fn) ==
    IF fn \in {"multiply_v0_bT", "multiply_v0_aT"}
    THEN {<<M, K, N>> : M \in SmallDims, K \in KDims, N \in SmallDims}
    ELSE IF fn \in {"multiply_v1_aT", "multiply_v2_aT"}
    THEN {<<M, K, N>> : M \in SmallDims, K \in TiledK, N \in TiledDims \cup UntiledDims}
    ELSE {sh \in {<<M, K, N>> : M \in TiledDims \cup UntiledDims, K \in TiledK,
                                N \in TiledDims \cup UntiledDims} :
            (sh[1] % TILE = 0 /\ sh[3] % TILE = 0)
                => (sh[1] \div TILE) * (sh[3] \div TILE) <= MaxTiles}

\* one call of one kernel on inputs of family seed; the output buffer is the
\* caller's: left over from an earlier use (the odd families), or all 0
InitCall ==
    \E fn \in Kernels, seed \in Seeds :
      \E sh \in Shapes(fn) :
        LET M == sh[1]
            K == sh[2]
            N == sh[3]
            LeftIn(e) == G(seed, e)
            RightIn(e) == G(seed + 1, e)
            OutIn(e) == IF seed % 2 = 1 THEN Stale(seed, e) ELSE 0
        IN Start(HeapOf(Buf(M * K, LeftIn) \o Buf(K * N, RightIn) \o Buf(M * N, OutIn)),
                 <<Thread(<<Call(fn, 0, M * K, M * K + K * N, M, K, N)>>)>>)

\* transpose_matr(p, t, M, K); transpose_matr(t, q, K, M)
InitRoundTrip ==
    \E M \in 1 .. MaxDim + 1, K \in 1 .. MaxDim + 1, seed \in Seeds :
        LET PIn(e) == Distinct(seed, e)
            TIn(e) == Stale(seed, e)
        IN Start(HeapOf(Buf(M * K, PIn) \o Buf(M * K, TIn) \o Buf(M * K, TIn)),
                 <<Thread(<<Call("transpose_matr", 0, 0, M * K, M, K, 0),
                            Call("transpose_matr", M * K, 0, 2 * M * K, K, M, 0)>>)>>)

Init == InitCall \/ InitRoundTrip

\* at most two threads
ThreadIds == {1, 2}

TransposeStep(id) ==
    \/ Step_transpose_matr_call(id)
    \/ Step_transpose_matr_i(id)
    \/ Step_transpose_matr_j(id)

KernelStep(id) ==
    \/ Step_multiply_v0_bT_call(id)
    \/ Step_multiply_v0_bT_m(id)
    \/ Step_multiply_v0_bT_n(id)
    \/ Step_multiply_v0_bT_k(id)
    \/ Step_multiply_v0_aT_call(id)
    \/ Step_multiply_v0_aT_m(id)
    \/ Step_multiply_v0_aT_n(id)
    \/ Step_multiply_v0_aT_k(id)
    \/ Step_multiply_v1_aT_call(id)
    \/ Step_multiply_v1_aT_m(id)
    \/ Step_multiply_v1_aT_n1(id)
    \/ Step_multiply_v1_aT_n2(id)
    \/ Step_multiply_v1_aT_k(id)
    \/ Step_multiply_v2_aT_call(id)
    \/ Step_multiply_v2_aT_i(id)
    \/ Step_multiply_v2_aT_m(id)
    \/ Step_multiply_v2_aT_n1(id)
    \/ Step_multiply_v2_aT_k(id)
    \/ Step_multiply_v2_aT_n2(id)
    \/ Step_multiply_v3_aT_call(id)
    \/ Step_multiply_v3_aT_i(id)
    \/ Step_multiply_v3_aT_m1(id)
    \/ Step_multiply_v3_aT_n1(id)
    \/ Step_multiply_v3_aT_k(id)
    \/ Step_multiply_v3_aT_m2(id)
    \/ Step_multiply_v3_aT_n2(id)

Next == \E id \in ThreadIds : TransposeStep(id) \/ KernelStep(id)

Spec == Init /\ [][Next]_vars

\* ------------------------------------------------------------------ main
\* main(): a and bT are the inputs, aT and b their transposes, and the five
\* kernels run one after the other into vc, vc0, vc1, vc2, vc3.  The shape is
\* drawn from small sets in place of 4096 x 1024 x 128.
MainProg(M, K, N) ==
    LET a == 0
        bT == a + M * K
        aT == bT + N * K
        b == aT + K * M
        vc == b + K * N
        vc0 == vc + M * N
        vc1 == vc0 + M * N
        vc2 == vc1 + M * N
        vc3 == vc2 + M * N
    IN <<Call("transpose_matr", a, 0, aT, M, K, 0),
         Call("transpose_matr", bT, 0, b, N, K, 0),
         Call("multiply_v0_bT", a, bT, vc, M, K, N),
         Call("multiply_v0_aT", aT, b, vc0, M, K, N),
         Call("multiply_v1_aT", aT, b, vc1, M, K, N),
         Call("multiply_v2_aT", aT, b, vc2, M, K, N),
         Call("multiply_v3_aT", aT, b, vc3, M, K, N)>>

InitMain ==
    \E M \in SmallDims \cup {TILE}, K \in TiledK, N \in SmallDims \cup {TILE},
       seed \in Seeds :
        LET AIn(e) == G(seed, e)
            BTIn(e) == G(seed + 1, e)
        IN Start(HeapOf(Buf(M * K, AIn) \o Buf(N * K, BTIn)
                        \o Vec(K * M) \o Vec(K * N)
                        \o Vec(M * N) \o Vec(M * N) \o Vec(M * N)
                        \o Vec(M * N) \o Vec(M * N)),
                 <<Thread(MainProg(M, K, N))>>)

\* the reference and one blocked variant on the same inputs, on every shape
\* the variant accepts: multiply_v0_aT(aT, b, c0); variant(aT, b, c1)
InitPair ==
    \E fn \in {"multiply_v1_aT", "multiply_v2_aT", "multiply_v3_aT"}, seed \in Seeds :
      \E sh \in {x \in Shapes(fn) : x[3] % TILE = 0} :
        LET M == sh[1]
            K == sh[2]
            N == sh[3]
            ATIn(e) == G(seed, e)
            BIn(e) == G(seed + 1, e)
        IN Start(HeapOf(Buf(K * M, ATIn) \o Buf(K * N, BIn) \o Vec(M * N) \o Vec(M * N)),
                 <<Thread(<<Call("multiply_v0_aT", 0, K * M, K * M + K * N, M, K, N),
                            Call(fn, 0, K * M, K * M + K * N + M * N, M, K, N)>>)>>)

\* ------------------------------------------------------------- tiny_test
va_tiny == <<1, 2, 3, 4, 5, 6>>

vbT_row == <<6, 5, 4, 3, 2, 1, 1, 2>>

vbT_tiny == vbT_row \o vbT_row \o vbT_row \o vbT_row

\* tiny_test(): M = 3, K = 2, N = 16
TinyProg ==
    LET M == 3
        K == 2
        N == 16
        a == 0
        aT == a + M * K
        bT == aT + K * M
        b == bT + N * K
        vc_bT == b + K * N
        vc_aT == vc_bT + M * N
        vc1_aT == vc_aT + M * N
    IN <<Call("transpose_matr", a, 0, aT, M, K, 0),
         Call("transpose_matr", bT, 0, b, N, K, 0),
         Call("multiply_v0_bT", a, bT, vc_bT, M, K, N),
         Call("multiply_v0_aT", aT, b, vc_aT, M, K, N),
         Call("multiply_v2_aT", aT, b, vc1_aT, M, K, N)>>

InitTiny ==
    Start(HeapOf(va_tiny \o Vec(6) \o vbT_tiny \o Vec(32)
                 \o Vec(48) \o Vec(48) \o Vec(48)),
          <<Thread(TinyProg)>>)

\* the same input without the padding: A is 3 x 2, the transposed B is 4 x 2
HandProg == <<Call("multiply_v0_bT", 0, 6, 14, 3, 2, 4)>>

InitHand == Start(HeapOf(va_tiny \o vbT_row \o Vec(12)), <<Thread(HandProg)>>)

\* the two storage conventions of the naive kernel, from a (M x K) and
\* b (K x N): bT = transpose_matr(b, K, N); aT = transpose_matr(a, M, K);
\* multiply_v0_bT(a, bT, c); multiply_v0_aT(aT, b, c0)
InitConv ==
    \E M \in 1 .. MaxDim + 1, K \in KDims, N \in 1 .. MaxDim + 1, seed \in Seeds :
        LET AIn(e) == G(seed, e)
            BIn(e) == G(seed + 1, e)
            a == 0
            b == a + M * K
            bT == b + K * N
            aT == bT + N * K
            c == aT + K * M
            c0 == c + M * N
        IN Start(HeapOf(Buf(M * K, AIn) \o Buf(K * N, BIn) \o Vec(N * K) \o Vec(K * M)
                        \o Vec(M * N) \o Vec(M * N)),
                 <<Thread(<<Call("transpose_matr", b, 0, bT, K, N, 0),
                            Call("transpose_matr", a, 0, aT, M, K, 0),
                            Call("multiply_v0_bT", a, bT, c, M, K, N),
                            Call("multiply_v0_aT", aT, b, c0, M, K, N)>>)>>)

InitAll == InitMain \/ InitPair \/ InitConv \/ InitTiny \/ InitHand

SpecMain == InitAll /\ [][Next]_vars

\* ------------------------------------------------------- two threads
\* the step of thread t on heap h
StepOf(t, h) ==
    LET at == <<Frame(t).fn, t.pc>> IN
    CASE at = <<"multiply_v0_bT", "call">> -> multiply_v0_bT_call(t, h)
      [] at = <<"multiply_v0_bT", "m">> -> multiply_v0_bT_m(t, h)
      [] at = <<"multiply_v0_bT", "n">> -> multiply_v0_bT_n(t, h)
      [] at = <<"multiply_v0_bT", "k">> -> multiply_v0_bT_k(t, h)
      [] at = <<"multiply_v0_aT", "call">> -> multiply_v0_aT_call(t, h)
      [] at = <<"multiply_v0_aT", "m">> -> multiply_v0_aT_m(t, h)
      [] at = <<"multiply_v0_aT", "n">> -> multiply_v0_aT_n(t, h)
      [] at = <<"multiply_v0_aT", "k">> -> multiply_v0_aT_k(t, h)
      [] at = <<"multiply_v1_aT", "call">> -> multiply_v1_aT_call(t, h)
      [] at = <<"multiply_v1_aT", "m">> -> multiply_v1_aT_m(t, h)
      [] at = <<"multiply_v1_aT", "n1">> -> multiply_v1_aT_n1(t, h)
      [] at = <<"multiply_v1_aT", "n2">> -> multiply_v1_aT_n2(t, h)
      [] at = <<"multiply_v1_aT", "k">> -> multiply_v1_aT_k(t, h)
      [] at = <<"multiply_v2_aT", "call">> -> multiply_v2_aT_call(t, h)
      [] at = <<"multiply_v2_aT", "i">> -> multiply_v2_aT_i(t, h)
      [] at = <<"multiply_v2_aT", "m">> -> multiply_v2_aT_m(t, h)
      [] at = <<"multiply_v2_aT", "n1">> -> multiply_v2_aT_n1(t, h)
      [] at = <<"multiply_v2_aT", "k">> -> multiply_v2_aT_k(t, h)
      [] at = <<"multiply_v2_aT", "n2">> -> multiply_v2_aT_n2(t, h)
      [] at = <<"multiply_v3_aT", "call">> -> multiply_v3_aT_call(t, h)
      [] at = <<"multiply_v3_aT", "i">> -> multiply_v3_aT_i(t, h)
      [] at = <<"multiply_v3_aT", "m1">> -> multiply_v3_aT_m1(t, h)
      [] at = <<"multiply_v3_aT", "n1">> -> multiply_v3_aT_n1(t, h)
      [] at = <<"multiply_v3_aT", "k">> -> multiply_v3_aT_k(t, h)
      [] at = <<"multiply_v3_aT", "m2">> -> multiply_v3_aT_m2(t, h)
      [] at = <<"multiply_v3_aT", "n2">> -> multiply_v3_aT_n2(t, h)

\* thread x has run alone to its end
AloneDone(x) == alone[x].t.pc \in {"done", "abort"}

\* the reference of two calls side by side: the call of thread id run alone,
\* a step at a time, on its own copy of the initial heap, before the threads
\* start
RunAlone(id) ==
    /\ id \in DOMAIN alone
    /\ \A x \in DOMAIN alone : x < id => AloneDone(x)
    /\ ~AloneDone(id)
    /\ alone' = [alone EXCEPT ![id] = StepOf(alone[id].t, alone[id].h)]
    /\ UNCHANGED <<mem, th, nw, mem0>>

\* the shapes of a call that runs beside another one
ConcShapes(fn) ==
    IF fn \in {"multiply_v0_bT", "multiply_v0_aT"}
    THEN {<<MaxDim, MaxDim>>}
    ELSE IF fn \in {"multiply_v1_aT", "multiply_v2_aT"}
    THEN {<<1, TILE>>}
    ELSE {<<TILE, TILE>>}

Max(x, y) == IF x < y THEN y ELSE x

\* two calls in two threads: the same two input buffers, an output buffer
\* each; no call waits for the other.  The two-dimensional variant, whose
\* smallest call is 16 x 16, is the first thread's only, beside the reference
\* or the output-tiled variant.
InitConc ==
    \E f1 \in Kernels, f2 \in Kernels, K \in 1 .. MaxConcK :
      \E s1 \in ConcShapes(f1), s2 \in ConcShapes(f2) :
        LET LeftLen == K * Max(s1[1], s2[1])
            RightLen == K * Max(s1[2], s2[2])
            c1 == LeftLen + RightLen
            c2 == c1 + s1[1] * s1[2]
            LeftIn(e) == G(1, e)
            RightIn(e) == G(2, e)
            OutIn(e) == Stale(1, e)
            threads == <<Thread(<<Call(f1, 0, LeftLen, c1, s1[1], K, s1[2])>>),
                         Thread(<<Call(f2, 0, LeftLen, c2, s2[1], K, s2[2])>>)>>
            heap == HeapOf(Buf(LeftLen, LeftIn) \o Buf(RightLen, RightIn)
                           \o Buf(s1[1] * s1[2], OutIn) \o Buf(s2[1] * s2[2], OutIn))
        IN /\ f2 # "multiply_v3_aT"
           /\ f1 = "multiply_v3_aT" => f2 \in {"multiply_v0_aT", "multiply_v2_aT"}
           /\ mem = heap
           /\ mem0 = heap
           /\ nw = [a \in DOMAIN heap |-> 0]
           /\ th = threads
           /\ alone = [id \in DOMAIN threads |-> St(threads[id], heap)]

NextConc == \E id \in ThreadIds : RunAlone(id) \/ KernelStep(id)

SpecConc == InitConc /\ [][NextConc]_vars

\* ================================================================ claims
\* call x of thread t has returned
Returned(t, x) == t.ip > x \/ (t.ip = x /\ t.pc = "done")

\* the calls of thread t
Calls(t) == 1 .. Len(t.prog)

Blocked == {"multiply_v1_aT", "multiply_v2_aT", "multiply_v3_aT"}

\* calls f and g are made on the same inputs and the same shape
SameInputs(f, g) ==
    f.p = g.p /\ f.q = g.q /\ f.M = g.M /\ f.K = g.K /\ f.N = g.N

\* the output buffers of calls f and g hold the same M x N matrix
SameOutput(f, g) ==
    \A e \in 0 .. f.M * f.N - 1 :
        /\ mem[f.c + e] = mem[g.c + e]
        /\ epsilon_equal(mem[f.c + e], mem[g.c + e])

RECURSIVE DotA(_, _, _, _, _, _, _)
\* sum over k' < k of a[m, k'] * b[k', n], a row-major M x K at pa in heap h
\* and b row-major K x N at pb
DotA(h, pa, pb, f, m, n, k) ==
    IF k = 0
    THEN 0
    ELSE DotA(h, pa, pb, f, m, n, k - 1)
         + h[pa + m * f.K + (k - 1)] * h[pb + (k - 1) * f.N + n]

RECURSIVE DotAT(_, _, _, _, _)
\* sum over k' < k of aT[k', m] * b[k', n] for the arguments of call f in heap h
DotAT(h, f, m, n, k) ==
    IF k = 0
    THEN 0
    ELSE DotAT(h, f, m, n, k - 1)
         + h[f.p + (k - 1) * f.M + m] * h[f.q + (k - 1) * f.N + n]

\* C1: a blocked variant (multiply_v1_aT, multiply_v2_aT, multiply_v3_aT) that
\* has returned, so on a shape its precondition accepts, has left in its
\* output the matrix that multiply_v0_aT left for the same inputs, element
\* by element, exactly and so within the tolerance of epsilon_equal.
C1_BlockedEqualsReference ==
    \A id \in DOMAIN th :
        \A x \in Calls(th[id]), r \in Calls(th[id]) :
            LET f == th[id].prog[x]
                g == th[id].prog[r]
            IN (/\ f.fn \in Blocked
                /\ g.fn = "multiply_v0_aT"
                /\ SameInputs(f, g)
                /\ Returned(th[id], x)
                /\ Returned(th[id], r))
               => SameOutput(f, g)

\* the reference and then multiply_v3_aT have run on the same 16 x 2 x 16
\* inputs, and the output is not all 0
C1_Witness ==
    /\ Len(th[1].prog) = 2
    /\ th[1].pc = "done"
    /\ th[1].prog[1].fn = "multiply_v0_aT"
    /\ th[1].prog[2].fn = "multiply_v3_aT"
    /\ th[1].prog[2].M = TILE /\ th[1].prog[2].K = 2 /\ th[1].prog[2].N = TILE
    /\ \E e \in 0 .. TILE * TILE - 1 : mem[th[1].prog[2].c + e] # 0

\* C2: multiply_v0_bT(a, bT) with bT the transpose of b and multiply_v0_aT(aT, b)
\* with aT the transpose of a write the same matrix, and it is
\* c[m * N + n] = sum over k of a[m, k] * b[k, n].
C2_NaiveLayoutInvariant ==
    \A id \in DOMAIN th :
        \A x \in Calls(th[id]), y \in Calls(th[id]) :
            LET f == th[id].prog[x]
                g == th[id].prog[y]
            IN (/\ f.fn = "multiply_v0_bT"
                /\ g.fn = "multiply_v0_aT"
                /\ f.M = g.M /\ f.K = g.K /\ f.N = g.N
                /\ Returned(th[id], x)
                /\ Returned(th[id], y))
               => /\ SameOutput(f, g)
                  /\ \A m \in 0 .. f.M - 1, n \in 0 .. f.N - 1 :
                        mem[f.c + m * f.N + n] = DotA(mem, f.p, g.q, f, m, n, f.K)

\* both conventions have run on a 2 x 3 times 3 x 2 product that is not all 0
C2_Witness ==
    /\ Len(th[1].prog) = 4
    /\ th[1].pc = "done"
    /\ th[1].prog[3].fn = "multiply_v0_bT"
    /\ th[1].prog[4].fn = "multiply_v0_aT"
    /\ th[1].prog[4].M = 2 /\ th[1].prog[4].K = 2 /\ th[1].prog[4].N = 3
    /\ \E e \in 0 .. 5 : mem[th[1].prog[4].c + e] # 0

\* the hand-checked product of [[1,2],[3,4],[5,6]] and [[6,4,2,1],[5,3,1,2]]
C_hand == <<16, 10, 4, 5, 38, 24, 10, 11, 60, 38, 16, 17>>

\* C7: on the hand-checked input multiply_v0_bT writes
\* [[16,10,4,5],[38,24,10,11],[60,38,16,17]], and in tiny_test, where the four
\* rows of the transposed B are repeated four times, multiply_v0_bT,
\* multiply_v0_aT and multiply_v2_aT each write the 3 x 16 matrix whose row m
\* is row m of that matrix four times over.
C7_HandChecked ==
    \A id \in DOMAIN th :
        /\ (th[id].prog = HandProg /\ Returned(th[id], 1))
            => \A e \in 0 .. 11 : mem[HandProg[1].c + e] = C_hand[e + 1]
        /\ th[id].prog = TinyProg
            => \A x \in {3, 4, 5} :
                 Returned(th[id], x)
                    => \A m \in 0 .. 2, n \in 0 .. 15 :
                         mem[TinyProg[x].c + m * 16 + n] = C_hand[m * 4 + (n % 4) + 1]

\* tiny_test has run to its end
C7_Witness ==
    /\ th[1].prog = TinyProg
    /\ th[1].pc = "done"
    /\ mem[TinyProg[5].c + 47] = 17

\* C3: a transpose_matr(p, pT, M, K) that has returned has written every one
\* of the M * K cells of pT exactly once, with pT[j * M + i] = p[i * K + j];
\* and transpose_matr(p, t, M, K) followed by transpose_matr(t, q, K, M)
\* leaves q equal to p, which is as it was, at every index.
C3_TransposeRoundTrip ==
    \A id \in DOMAIN th :
        \A x \in Calls(th[id]) :
            LET f == th[id].prog[x] IN
            f.fn = "transpose_matr" =>
              /\ \A e \in 0 .. f.M * f.K - 1 : nw[f.c + e] <= 1
              /\ Returned(th[id], x) =>
                   /\ \A e \in 0 .. f.M * f.K - 1 : nw[f.c + e] = 1
                   /\ \A i \in 0 .. f.M - 1, j \in 0 .. f.K - 1 :
                        mem[f.c + j * f.M + i] = mem[f.p + i * f.K + j]
              /\ (/\ x > 1
                  /\ th[id].prog[x - 1].fn = "transpose_matr"
                  /\ th[id].prog[x - 1].c = f.p
                  /\ th[id].prog[x - 1].M = f.K
                  /\ th[id].prog[x - 1].K = f.M
                  /\ Returned(th[id], x))
                 => \A e \in 0 .. f.M * f.K - 1 :
                      /\ mem[f.c + e] = mem0[th[id].prog[x - 1].p + e]
                      /\ mem[th[id].prog[x - 1].p + e] = mem0[th[id].prog[x - 1].p + e]

\* a 2 x 3 buffer has been transposed twice
C3_Witness ==
    /\ Len(th[1].prog) = 2
    /\ th[1].prog[1].fn = "transpose_matr"
    /\ th[1].prog[1].M = 2 /\ th[1].prog[1].K = 3
    /\ th[1].pc = "done"
    /\ mem[th[1].prog[2].c + 5] = mem0[5]

\* the call's dimensions violate its tiling precondition
Untiled(f) ==
    \/ f.fn \in {"multiply_v1_aT", "multiply_v2_aT"} /\ f.N % TILE # 0
    \/ f.fn = "multiply_v3_aT" /\ (f.M % TILE # 0 \/ f.N % TILE # 0)

\* C4: a blocked variant called with a dimension that violates its tiling
\* precondition never gets past its precondition check, and its output
\* buffer is never written: it stays as it was on entry.
C4_RejectedBeforeAnyWrite ==
    \A id \in DOMAIN th :
        LET f == Frame(th[id]) IN
        Untiled(f) =>
            /\ th[id].pc \in {"call", "abort"}
            /\ \A e \in 0 .. f.M * f.N - 1 :
                 mem[f.c + e] = mem0[f.c + e] /\ nw[f.c + e] = 0

\* multiply_v3_aT with M = 17, N = 16 and a stale output buffer was rejected
C4_Witness ==
    /\ Frame(th[1]).fn = "multiply_v3_aT"
    /\ Frame(th[1]).M = TILE + 1 /\ Frame(th[1]).N = TILE
    /\ th[1].pc = "abort"
    /\ mem0[Frame(th[1]).c] # 0

\* C5 as stated: a call of multiply_v1_aT with K no multiple of 16 is rejected
\* by its precondition check.
C5_RejectsUntiledK ==
    \A id \in DOMAIN th :
        (Frame(th[id]).fn = "multiply_v1_aT" /\ Frame(th[id]).K % TILE # 0)
            => th[id].pc \in {"call", "abort"}

\* C5, amended: multiply_v1_aT splits the loop over the output columns (N)
\* into n1 stepping by 16 and n2 of 16 iterations, the contraction loop k
\* running unsplit from 0 to K inside them; its precondition is on N: a call
\* is rejected exactly when N is no multiple of 16, whatever K is.
C5_V1TilesColumnsNotK ==
    \A id \in DOMAIN th :
        LET t == th[id]
            f == Frame(th[id])
        IN f.fn = "multiply_v1_aT" =>
            /\ f.N % TILE # 0 => t.pc \in {"call", "abort"}
            /\ f.N % TILE = 0 => t.pc # "abort"
            /\ t.pc \in {"n2", "k"} =>
                 /\ t.n1 % TILE = 0 /\ t.n1 < f.N
                 /\ t.n2 \in 0 .. TILE
            /\ t.pc = "k" =>
                 /\ t.n2 < TILE
                 /\ t.k \in 0 .. f.K
                 /\ t.acc.c = {t.m * f.N + t.n1 + t.n2}
                 /\ t.acc.q \subseteq {(t.k - 1) * f.N + t.n1 + t.n2}

\* multiply_v1_aT with K = 2 and N = 32 is accumulating in its second tile
C5_Witness ==
    /\ Frame(th[1]).fn = "multiply_v1_aT"
    /\ Frame(th[1]).K = 2 /\ Frame(th[1]).N = 2 * TILE
    /\ th[1].pc = "k" /\ th[1].n1 = TILE /\ th[1].k = 2

\* the output of call f is the product of its inputs as they were in heap h
IsProduct(f, h) ==
    \A m \in 0 .. f.M - 1, n \in 0 .. f.N - 1 :
        mem[f.c + m * f.N + n] = DotAT(h, f, m, n, f.K)

\* C6 as stated: multiply_v2_aT and multiply_v3_aT return the product only
\* when every element of c is 0 on entry (looked at where there is something
\* to add up, K >= 1).
C6_ProductOnlyIfZeroed ==
    \A id \in DOMAIN th :
        LET f == Frame(th[id]) IN
        (/\ f.fn \in {"multiply_v2_aT", "multiply_v3_aT"}
         /\ f.K >= 1
         /\ Returned(th[id], th[id].ip)
         /\ IsProduct(f, mem0))
        => \A e \in 0 .. f.M * f.N - 1 : mem0[f.c + e] = 0

\* C6, amended: multiply_v2_aT and multiply_v3_aT set every element of c to 0
\* themselves before they accumulate, so what they return is the product
\* whatever c held on entry.
C6_ZeroesOutputItself ==
    \A id \in DOMAIN th :
        LET t == th[id]
            f == Frame(th[id])
        IN (f.fn \in {"multiply_v2_aT", "multiply_v3_aT"} /\ ~Untiled(f)) =>
            /\ t.pc = "i" => \A e \in 0 .. t.i - 1 : mem[f.c + e] = 0
            /\ t.pc \notin {"call", "i"} =>
                 \A e \in 0 .. f.M * f.N - 1 : nw[f.c + e] >= 1
            /\ Returned(t, t.ip) => IsProduct(f, mem0)

\* multiply_v3_aT has returned from a call whose output buffer was stale
C6_Witness ==
    /\ Frame(th[1]).fn = "multiply_v3_aT"
    /\ Frame(th[1]).K = 2
    /\ th[1].pc = "done"
    /\ \A e \in 0 .. TILE * TILE - 1 : mem0[Frame(th[1]).c + e] # 0
    /\ \E e \in 0 .. TILE * TILE - 1 : mem[Frame(th[1]).c + e] # 0

\* the M-tile x N-tile blocks of the output of call f, by their first row
\* and column
BlocksOf(f) ==
    {<<bm, bn>> : bm \in {TILE * x : x \in 0 .. (f.M \div TILE) - 1},
                  bn \in {TILE * x : x \in 0 .. (f.N \div TILE) - 1}}

\* the indices into c of the elements of block blk
BlockCells(f, blk) ==
    {(blk[1] + r) * f.N + blk[2] + s : r \in 0 .. TILE - 1, s \in 0 .. TILE - 1}

\* the loops of multiply_v3_aT have moved on from block blk
MovedOn(t, blk) ==
    \/ t.pc = "done"
    \/ t.pc = "m1" /\ blk[1] < t.m1
    \/ t.pc \in {"n1", "k", "m2", "n2"}
         /\ (blk[1] < t.m1 \/ (blk[1] = t.m1 /\ blk[2] < t.n1))

\* the loops of multiply_v3_aT are inside block blk
Inside(t, blk) == t.pc \in {"k", "m2", "n2"} /\ blk = <<t.m1, t.n1>>

\* C9: in multiply_v3_aT every accumulation goes to the block the loops are
\* in; a block the loops have moved on from has had all its writes (the 0
\* and the K contributions of every element) and holds its final value, the
\* product; a block the loops have not reached holds only its 0.  A count
\* that is K + 1 when the loops move on and K + 1 ever after means no write
\* after that, so the value, looked at each time the loops are at the head
\* of a block, is the same in between.
C9_BlockByBlock ==
    \A id \in DOMAIN th :
        LET t == th[id]
            f == Frame(th[id])
        IN (f.fn = "multiply_v3_aT" /\ t.pc \in {"m1", "n1", "k", "m2", "n2", "done"}) =>
            /\ t.pc = "n2" => t.acc.c \subseteq BlockCells(f, <<t.m1, t.n1>>)
            /\ \A blk \in BlocksOf(f) :
                 \A e \in BlockCells(f, blk) :
                    /\ MovedOn(t, blk) =>
                         /\ nw[f.c + e] = f.K + 1
                         /\ t.pc \in {"m1", "n1", "done"} =>
                              mem[f.c + e] = DotAT(mem0, f, e \div f.N, e % f.N, f.K)
                    /\ (~MovedOn(t, blk) /\ ~Inside(t, blk)) =>
                         /\ nw[f.c + e] = 1
                         /\ mem[f.c + e] = 0

\* multiply_v3_aT on 16 x 2 x 32 is in its second block, the first one done
C9_Witness ==
    /\ Frame(th[1]).fn = "multiply_v3_aT"
    /\ Frame(th[1]).M = TILE /\ Frame(th[1]).K = 2 /\ Frame(th[1]).N = 2 * TILE
    /\ th[1].pc = "n2" /\ th[1].n1 = TILE /\ th[1].k = 1 /\ th[1].m2 = 1
    /\ nw[Frame(th[1]).c] = 3
    /\ \E e \in 0 .. TILE - 1 : mem[Frame(th[1]).c + e] # 0

\* C10: a kernel reads its left operand at indices in [0, M*K), its right
\* operand in [0, K*N), reads and writes c in [0, M*N), changes no heap cell
\* outside c, and when it returns has written every element of c.
C10_StaysInsideBuffers ==
    \A id \in DOMAIN th :
        LET t == th[id]
            f == Frame(th[id])
        IN (f.fn \in Kernels /\ Len(t.prog) = 1) =>
            /\ t.acc.p \subseteq 0 .. f.M * f.K - 1
            /\ t.acc.q \subseteq 0 .. f.K * f.N - 1
            /\ t.acc.c \subseteq 0 .. f.M * f.N - 1
            /\ \A a \in DOMAIN mem :
                 (a < f.c \/ a >= f.c + f.M * f.N) => mem[a] = mem0[a] /\ nw[a] = 0
            /\ t.pc = "done" => \A e \in 0 .. f.M * f.N - 1 : nw[f.c + e] >= 1

\* multiply_v1_aT has returned from a 2 x 2 x 32 call
C10_Witness ==
    /\ Frame(th[1]).fn = "multiply_v1_aT"
    /\ Frame(th[1]).M = 2 /\ Frame(th[1]).K = 2 /\ Frame(th[1]).N = 2 * TILE
    /\ th[1].pc = "done"
    /\ nw[Frame(th[1]).c + 63] = 3

\* heaps h1 and h2 agree on cells
SameOn(cells, h1, h2) == \A a \in cells : h1[a] = h2[a]

\* the heap cells of the output buffer of call f
OutCells(f) == f.c .. f.c + f.M * f.N - 1

\* heap cell a is in the output buffer of call f
InOut(f, a) == f.c <= a /\ a < f.c + f.M * f.N

\* C8: two kernel calls on the same input buffers and disjoint output
\* buffers, their steps interleaved in any way: every access of a call is
\* inside its own operands, no cell outside the two output buffers changes,
\* an output buffer is as it was until its own call starts, and a call that
\* has returned has left, and keeps, the output it leaves when it runs alone.
C8_CallsDoNotInterfere ==
    /\ \A a \in DOMAIN mem :
         (\A id \in DOMAIN th : ~InOut(Frame(th[id]), a))
            => mem[a] = mem0[a] /\ nw[a] = 0
    /\ \A id \in DOMAIN th :
        LET t == th[id]
            f == Frame(th[id])
        IN /\ t.acc.p \subseteq 0 .. f.M * f.K - 1
           /\ t.acc.q \subseteq 0 .. f.K * f.N - 1
           /\ t.acc.c \subseteq 0 .. f.M * f.N - 1
           /\ t.pc = "call" => \A a \in OutCells(f) : mem[a] = mem0[a] /\ nw[a] = 0
           /\ t.pc = "done" => SameOn(OutCells(f), mem, alone[id].h)

\* multiply_v3_aT has returned while multiply_v2_aT, on the same inputs, is
\* half way through a tile
C8_Witness ==
    /\ DOMAIN th = {1, 2}
    /\ Frame(th[1]).fn = "multiply_v3_aT" /\ th[1].pc = "done"
    /\ Frame(th[2]).fn = "multiply_v2_aT" /\ th[2].pc = "n2" /\ th[2].n2 = 8
    /\ Frame(th[1]).p = Frame(th[2]).p /\ Frame(th[1]).q = Frame(th[2]).q
    /\ OutCells(Frame(th[1])) \cap OutCells(Frame(th[2])) = {}
    /\ \E a \in OutCells(Frame(th[1])) : mem[a] # 0

====
